---- MODULE Spec2Model ----
(***************************************************************************)
(* Company-profile research pipeline: the job documents written by         *)
(* backend/app.py (start_research, run_research_job), the six-node graph   *)
(* of backend/agent_flow.py that run_research_job streams, and the agents  *)
(* of backend/agents.                                                      *)
(*                                                                         *)
(* Python strings are sequences of tokens, so that strip(), startswith()   *)
(* and the substring tests of the code are computed and not assumed.       *)
(* Python None is NULL, a key that is not in a dict is ABSENT: AgentState  *)
(* is declared total=False, and a key no node has written is not in the    *)
(* state a node receives.                                                  *)
(***************************************************************************)
EXTENDS Integers, Sequences, FiniteSets, TLC

VARIABLES store, queue, runs, starts, call

vars == <<store, queue, runs, starts, call>>

(***************************************************************************)
(* Bounds                                                                  *)
(***************************************************************************)
MaxJobs == 1

MaxRuns == 2

(***************************************************************************)
(* Strings                                                                 *)
(***************************************************************************)
NULL == <<"None">>

ABSENT == <<"absent">>

EMPTY == <<>>

Truthy(v) == v # NULL /\ v # ABSENT /\ v # EMPTY

DictGet(v) == IF v = ABSENT THEN NULL ELSE v

DictGetDefault(v, default) == IF v = ABSENT THEN default ELSE v

Contains(s, sub) ==
    \E i \in 0..(Len(s) - Len(sub)) : SubSeq(s, i + 1, i + Len(sub)) = sub

StartsWith(s, prefix) ==
    Len(s) >= Len(prefix) /\ SubSeq(s, 1, Len(prefix)) = prefix

\* The characters of s that are not blank, by position.
Inked(s) == {i \in DOMAIN s : s[i] # " "}

LStrip(s) ==
    IF Inked(s) = {}
    THEN <<>>
    ELSE SubSeq(s, CHOOSE i \in Inked(s) : \A j \in Inked(s) : i <= j, Len(s))

RStrip(s) ==
    IF Inked(s) = {}
    THEN <<>>
    ELSE SubSeq(s, 1, CHOOSE i \in Inked(s) : \A j \in Inked(s) : j <= i)

Strip(s) == RStrip(LStrip(s))

ACME == <<"Acme">>

LI_NAME == <<"Acme", "Inc">>

WEB == <<"http", "s://", "acme.com">>

LI_WEB == <<"http", "s://", "www.", "acme.com">>

LI == <<"http", "s://", "www.", "linkedin.com", "/company", "/", "acme">>

JUNK == <<"I", " ", "found", " ", "nothing">>

CAREERS == <<"http", "s://", "acme.com", "/careers">>

RAISE == <<"<exception>">>

UNAVAILABLE == <<"Company information unavailable">>

SUMMARY == <<"summary of the website">>

UNKNOWN == <<"Unknown">>

LI_DESCRIPTION == <<"description on LinkedIn">>

NO_CAREERS == <<"No careers page found.">>

FAILED_SCRAPE == <<"Failed to scrape careers page: ", "<exception>">>

MARKDOWN == <<"careers page markdown">>

NEWS_RAW == <<"news search results">>

NEWS_SUMMARY == <<"summary of the news">>

UNABLE_NEWS == <<"Unable to generate news summary">>

KEYERROR_WEBSITE == <<"'website_url'">>

STORE_ERROR == <<"store unavailable">>

(***************************************************************************)
(* Dicts.  A company profile (the value of linkedin_data) is a record of   *)
(* the keys the code reads; kind tells a dict from None and from a value   *)
(* that is no dict.                                                        *)
(***************************************************************************)
EmptyDict ==
    [kind |-> "dict", success |-> ABSENT, name |-> ABSENT, website |-> ABSENT,
     description |-> ABSENT, industry |-> ABSENT, headquarters |-> ABSENT,
     url |-> ABSENT, website_extract |-> ABSENT, error |-> ABSENT,
     data_source |-> ABSENT, company_size |-> ABSENT, founded |-> ABSENT]

NotADict(kind) == [EmptyDict EXCEPT !.kind = kind]

JobList(kind, items) == [kind |-> kind, items |-> items]

JOB == [title |-> <<"Engineer">>, location |-> <<"Sydney">>, link |-> CAREERS]

(***************************************************************************)
(* agent_flow.py: AgentState and the nodes of the graph.  Every node takes *)
(* the state and the outcomes of the external calls it makes, and gives    *)
(* [raised, msg, state].                                                   *)
(***************************************************************************)
AgentState(initial_input, provided_url) ==
    [initial_input |-> initial_input, provided_url |-> provided_url,
     company_name |-> ABSENT, website_url |-> ABSENT, linkedin_url |-> ABSENT,
     linkedin_data |-> NotADict("absent"), careers_page_url |-> ABSENT,
     careers_page_content |-> ABSENT, recent_news |-> ABSENT,
     job_openings |-> JobList("absent", <<>>), recent_news_summary |-> ABSENT,
     data_source |-> ABSENT]

Returned(st) == [raised |-> FALSE, msg |-> EMPTY, state |-> st]

Raised(msg, st) == [raised |-> TRUE, msg |-> msg, state |-> st]

\* A start that keeps a company-page URL as the website URL as well.
StartNodeKeepsWebsite(st) ==
    LET s1 == [st EXCEPT !.company_name = Strip(st.initial_input)]
        url == DictGet(st.provided_url)
    IN  IF Truthy(url)
        THEN IF Contains(url, <<"linkedin.com", "/company">>)
             THEN Returned([s1 EXCEPT !.linkedin_url = url, !.website_url = url])
             ELSE Returned([s1 EXCEPT !.website_url = url])
        ELSE Returned(s1)

\* A start that clears provided_url once it has classified it.
StartNodeConsumesUrl(st) ==
    LET s1 == [st EXCEPT !.company_name = Strip(st.initial_input),
                         !.provided_url = NULL]
        url == DictGet(st.provided_url)
    IN  IF Truthy(url)
        THEN IF Contains(url, <<"linkedin.com", "/company">>)
             THEN Returned([s1 EXCEPT !.linkedin_url = url])
             ELSE Returned([s1 EXCEPT !.website_url = url])
        ELSE Returned(s1)

start_node(st) ==
    LET s1 == [st EXCEPT !.company_name = Strip(st.initial_input)]
        url == DictGet(st.provided_url)
    IN  IF Truthy(url)
        THEN IF Contains(url, <<"linkedin.com", "/company">>)
             THEN Returned([s1 EXCEPT !.linkedin_url = url])
             ELSE Returned([s1 EXCEPT !.website_url = url])
        ELSE Returned(s1)

\* answer: what llm.invoke(prompt).content is, or RAISE when the search or the
\* generation call raises.
find_linkedin_url_node(st, answer) ==
    IF Truthy(DictGet(st.linkedin_url))
    THEN Returned(st)
    ELSE IF answer = RAISE
         THEN Returned([st EXCEPT !.linkedin_url = NULL])
         ELSE Returned([st EXCEPT !.linkedin_url = Strip(answer)])

\* scraped: whether the scrape and the extraction call both return.
scrape_company_website_fallback(st, scraped) ==
    IF ~Truthy(DictGet(st.website_url))
    THEN [EmptyDict EXCEPT !.name = st.company_name, !.website = NULL,
                           !.description = UNAVAILABLE, !.data_source = <<"none">>]
    ELSE IF scraped
         THEN [EmptyDict EXCEPT !.name = st.company_name, !.website = st.website_url,
                                !.description = SUMMARY, !.industry = UNKNOWN,
                                !.headquarters = UNKNOWN,
                                !.data_source = <<"website">>]
         ELSE [EmptyDict EXCEPT !.name = st.company_name,
                                !.website = DictGet(st.website_url),
                                !.description = UNAVAILABLE,
                                !.data_source = <<"none">>]

LookupFailed(st, scraped) ==
    [st EXCEPT !.linkedin_data = scrape_company_website_fallback(st, scraped),
               !.data_source = <<"website">>]

\* lookup: what scrape_linkedin_company.invoke returns (kind "raise" when it
\* raises).
scrape_linkedin_node(st, lookup, scraped) ==
    IF ~Truthy(DictGet(st.linkedin_url))
    THEN LET d == scrape_company_website_fallback(st, scraped)
         IN  Returned([st EXCEPT !.linkedin_data = d,
                                 !.data_source = DictGetDefault(d.data_source, <<"none">>)])
    ELSE IF lookup.kind = "raise"
    THEN Returned(LookupFailed(st, scraped))
    ELSE IF lookup.kind # "dict"
    THEN Returned(LookupFailed(st, scraped))
    ELSE IF lookup.success = <<"False">> \/ ~Truthy(DictGet(lookup.name))
    THEN Returned(LookupFailed(st, scraped))
    ELSE LET s1 == [st EXCEPT !.linkedin_data = lookup,
                              !.data_source = <<"linkedin">>,
                              !.company_name =
                                  DictGetDefault(lookup.name, st.company_name)]
         IN  IF s1.website_url = ABSENT
             THEN \* state['website_url'] raises KeyError inside the try
                  Returned(LookupFailed(s1, scraped))
             ELSE Returned([s1 EXCEPT !.website_url =
                               DictGetDefault(lookup.website, s1.website_url)])

\* careers: the generated careers URL text, or RAISE; news: the search result,
\* or RAISE.
find_jobs_and_news_node(st, careers, news) ==
    IF st.website_url = ABSENT
    THEN Raised(KEYERROR_WEBSITE, st)
    ELSE Returned([st EXCEPT
             !.careers_page_url = IF careers = RAISE THEN NULL ELSE Strip(careers),
             !.recent_news = IF news = RAISE THEN EMPTY ELSE news])

scrape_careers_page_node(st, scraped) ==
    IF ~Truthy(DictGet(st.careers_page_url))
    THEN Returned([st EXCEPT !.careers_page_content = NO_CAREERS])
    ELSE IF scraped
         THEN Returned([st EXCEPT !.careers_page_content = MARKDOWN])
         ELSE Returned([st EXCEPT !.careers_page_content = FAILED_SCRAPE])

\* generated: whether the structured generation call returns.
generate_final_report_node(st, generated, jobs, summary) ==
    IF st.recent_news = ABSENT
    THEN Raised(<<"'recent_news'">>, st)
    ELSE IF generated
         THEN Returned([st EXCEPT !.job_openings = JobList("list", jobs),
                                  !.recent_news_summary = summary])
         ELSE Returned([st EXCEPT !.job_openings = JobList("list", <<>>),
                                  !.recent_news_summary = UNABLE_NEWS])

\* The two searches of find_jobs_and_news_node, each on its own: the careers
\* search reads company_name and website_url and writes careers_page_url, the
\* news search reads company_name and writes recent_news.
careers_search(st, careers) ==
    IF st.website_url = ABSENT
    THEN Raised(KEYERROR_WEBSITE, st)
    ELSE Returned([st EXCEPT
             !.careers_page_url = IF careers = RAISE THEN NULL ELSE Strip(careers)])

news_search(st, news) ==
    Returned([st EXCEPT !.recent_news = IF news = RAISE THEN EMPTY ELSE news])

(***************************************************************************)
(* get_research_graph: the entry point and the edges.                      *)
(***************************************************************************)
END == "__end__"

EntryPoint == "start"

Edge(node) ==
    CASE node = "start" -> "find_linkedin_url"
      [] node = "find_linkedin_url" -> "scrape_linkedin"
      [] node = "scrape_linkedin" -> "find_jobs_and_news"
      [] node = "find_jobs_and_news" -> "scrape_careers_page"
      [] node = "scrape_careers_page" -> "generate_final_report"
      [] node = "generate_final_report" -> END

GraphNodes ==
    <<"start", "find_linkedin_url", "scrape_linkedin", "find_jobs_and_news",
      "scrape_careers_page", "generate_final_report">>

(***************************************************************************)
(* What the external capabilities can answer.                              *)
(***************************************************************************)
LI_ANSWER == LI \o <<" ">>

FindAnswers == {RAISE, LI_ANSWER, JUNK}

LookupFound(website) ==
    [EmptyDict EXCEPT !.name = LI_NAME, !.website = website,
                      !.description = LI_DESCRIPTION, !.industry = <<"Robotics">>]

LookupsFound == {LookupFound(w) : w \in {ABSENT, NULL, LI_WEB}}

LookupsFailed ==
    {NotADict("raise"), NotADict("none"), NotADict("nonobj"),
     [LookupFound(LI_WEB) EXCEPT !.success = <<"False">>],
     [EmptyDict EXCEPT !.error = <<"Failed to scrape LinkedIn profile">>]}

LookupOutcomes == LookupsFound \cup LookupsFailed

CareersAnswers == {RAISE, CAREERS}

NewsResults == {RAISE, NEWS_RAW}

\* A result of a node, with ok: no external call the node made has failed.
Outcome(result, ok) ==
    [raised |-> result.raised, msg |-> result.msg, state |-> result.state, ok |-> ok]

\* The results a node can give from st, over every outcome of its calls.
NodeResults(node, st) ==
    CASE node = "start" -> {Outcome(start_node(st), TRUE)}
      [] node = "find_linkedin_url" ->
            {Outcome(find_linkedin_url_node(st, a),
                     Truthy(DictGet(st.linkedin_url)) \/ a = LI_ANSWER) :
                 a \in FindAnswers}
      [] node = "scrape_linkedin" ->
            {LET result == scrape_linkedin_node(st, l, s)
                 looked_up == Truthy(DictGet(st.linkedin_url))
                 scraping == /\ result.state.data_source # <<"linkedin">>
                             /\ Truthy(DictGet(st.website_url))
             IN  Outcome(result, /\ looked_up => l \in LookupsFound
                                 /\ scraping => s) :
                 l \in LookupOutcomes, s \in BOOLEAN}
      [] node = "find_jobs_and_news" ->
            {LET result == find_jobs_and_news_node(st, c, n)
             IN  Outcome(result, result.raised \/ (c = CAREERS /\ n = NEWS_RAW)) :
                 c \in CareersAnswers, n \in NewsResults}
      [] node = "scrape_careers_page" ->
            {Outcome(scrape_careers_page_node(st, s),
                     Truthy(DictGet(st.careers_page_url)) => s) :
                 s \in BOOLEAN}
      [] node = "generate_final_report" ->
            {LET result == generate_final_report_node(st, g, <<JOB>>, NEWS_SUMMARY)
             IN  Outcome(result, result.raised \/ g) :
                 g \in BOOLEAN}

(***************************************************************************)
(* app.py: the job documents of the store.  store[id] is the document of   *)
(* job id; an update merges the fields it names into the document.         *)
(***************************************************************************)
\* A document that is created as running.
JobDataRunning(job_id, user_input, url_input) ==
    [id |-> job_id, status |-> "running", input |-> user_input, url |-> url_input,
     steps_complete |-> <<>>, linkedin_data |-> NotADict("none"),
     job_openings |-> JobList("none", <<>>), recent_news_summary |-> NULL,
     error |-> NULL, data_source |-> ABSENT, raw_careers_markdown |-> ABSENT,
     raw_news_data |-> ABSENT, completed_at |-> ABSENT]

JobData(job_id, user_input, url_input) ==
    [id |-> job_id, status |-> "pending", input |-> user_input, url |-> url_input,
     steps_complete |-> <<>>, linkedin_data |-> NotADict("none"),
     job_openings |-> JobList("none", <<>>), recent_news_summary |-> NULL,
     error |-> NULL, data_source |-> ABSENT, raw_careers_markdown |-> ABSENT,
     raw_news_data |-> ABSENT, completed_at |-> ABSENT]

\* A stage update that persists the name of the last step only.
StageUpdateLastStep(doc, steps_complete) ==
    [doc EXCEPT !.status = "running",
                !.steps_complete = <<steps_complete[Len(steps_complete)]>>]

\* A stage update that persists the steps and leaves the status as it is.
StageUpdateKeepsStatus(doc, steps_complete) ==
    [doc EXCEPT !.steps_complete = steps_complete]

StageUpdate(doc, steps_complete) ==
    [doc EXCEPT !.status = "running", !.steps_complete = steps_complete]

\* A completion that sets the status and leaves the results to a later write.
CompleteUpdateStatusOnly(doc, final_state) ==
    [doc EXCEPT !.status = "complete", !.completed_at = <<"SERVER_TIMESTAMP">>]

CompleteUpdate(doc, final_state) ==
    [doc EXCEPT
       !.status = "complete",
       !.completed_at = <<"SERVER_TIMESTAMP">>,
       !.linkedin_data = IF final_state.linkedin_data.kind # "absent"
                         THEN final_state.linkedin_data ELSE @,
       !.job_openings = IF final_state.job_openings.kind # "absent"
                        THEN final_state.job_openings ELSE @,
       !.recent_news_summary = IF final_state.recent_news_summary # ABSENT
                               THEN final_state.recent_news_summary ELSE @,
       !.data_source = IF final_state.data_source # ABSENT
                       THEN final_state.data_source ELSE @,
       !.raw_careers_markdown = IF final_state.careers_page_content # ABSENT
                                THEN final_state.careers_page_content ELSE @,
       !.raw_news_data = IF final_state.recent_news # ABSENT
                         THEN final_state.recent_news ELSE @]

\* An error update that records the message and leaves the status as it is.
ErrorUpdateMessageOnly(doc, message) == [doc EXCEPT !.error = message]

\* An error update that writes the whole progress field anew, as empty.
ErrorUpdateClearsSteps(doc, message) ==
    [doc EXCEPT !.status = "error", !.error = message, !.steps_complete = <<>>]

ErrorUpdate(doc, message) ==
    [doc EXCEPT !.status = "error", !.error = message]

(***************************************************************************)
(* start_research: one request.  stored and enqueued tell whether          *)
(* job_ref.set and task_client.create_task return or raise.                *)
(***************************************************************************)
Inputs == {ACME}

NoInputs == {NULL, EMPTY}

Urls == {NULL, WEB, LI}

\* The answer to one request, with the request it answers.
Response(resp, job_id, user_input, url_input) ==
    [resp |-> resp, job_id |-> job_id, input |-> user_input, url |-> url_input]

start_research(user_input, url_input, stored, enqueued) ==
    LET job_id == Len(store) + 1
    IN  IF ~Truthy(user_input)
        THEN /\ starts' = Append(starts, Response(400, 0, user_input, url_input))
             /\ UNCHANGED <<store, queue>>
        ELSE IF ~stored
        THEN /\ starts' = Append(starts, Response(500, 0, user_input, url_input))
             /\ UNCHANGED <<store, queue>>
        ELSE IF ~enqueued
        THEN /\ store' = Append(store, JobData(job_id, user_input, url_input))
             /\ starts' = Append(starts, Response(500, job_id, user_input, url_input))
             /\ UNCHANGED queue
        ELSE /\ store' = Append(store, JobData(job_id, user_input, url_input))
             /\ queue' = queue \cup {job_id}
             /\ starts' = Append(starts, Response(202, job_id, user_input, url_input))

StartResearch ==
    /\ Len(starts) < MaxJobs
    /\ \E user_input \in Inputs \cup NoInputs, url_input \in Urls,
          stored \in BOOLEAN, enqueued \in BOOLEAN :
          start_research(user_input, url_input, stored, enqueued)
    /\ UNCHANGED <<runs, call>>

(***************************************************************************)
(* run_research_job: one invocation is a run, runs[r].  pc is the place    *)
(* the invocation has reached:                                             *)
(*   get      job_ref.get() and the inputs           (lines 116-146)       *)
(*   stream   one turn of the loop over graph.stream (lines 148-159)       *)
(*   complete the update that ends the job           (lines 161-192)       *)
(*   handler  the except clause                      (lines 194-204)       *)
(*   done     the invocation has returned or raised                        *)
(* all_ok records that no external call and no store call of the           *)
(* invocation has failed so far.                                           *)
(***************************************************************************)
\* An invocation that works on the first job, whatever job its task names.
NewRunOfFirstJob(job_id) ==
    [job_id |-> 1, pc |-> "get", node |-> EntryPoint, steps_complete |-> <<>>,
     state |-> AgentState(ABSENT, ABSENT), exc |-> EMPTY, resp |-> "none",
     all_ok |-> TRUE]

NewRun(job_id) ==
    [job_id |-> job_id, pc |-> "get", node |-> EntryPoint, steps_complete |-> <<>>,
     state |-> AgentState(ABSENT, ABSENT), exc |-> EMPTY, resp |-> "none",
     all_ok |-> TRUE]

Deliver(job_id) ==
    /\ job_id \in queue
    /\ queue' = queue \ {job_id}
    /\ runs' = Append(runs, NewRun(job_id))
    /\ UNCHANGED <<store, starts, call>>

\* A second delivery of a task that was delivered before (the queue delivers
\* at least once).
Redeliver(job_id) ==
    /\ Len(runs) < MaxRuns
    /\ \E r \in DOMAIN runs : runs[r].job_id = job_id
    /\ runs' = Append(runs, NewRun(job_id))
    /\ UNCHANGED <<store, queue, starts, call>>

\* The except clause reads job_id and the exception only: the other locals of
\* the invocation are dead once it is entered.
Catch(run, message, ok) ==
    [NewRun(run.job_id) EXCEPT !.pc = "handler", !.exc = message,
                               !.all_ok = run.all_ok /\ ok]

\* The job_id of a request that names no job: data.get('job_id') is None.
NO_JOB_ID == 0

REQUEST_ERROR == <<"request error">>

\* A request made by something other than a task of start_research: it names
\* no job, or a job that has no document.
Stray(job_id) ==
    /\ Len(runs) < MaxRuns
    /\ job_id \notin DOMAIN store
    /\ runs' = Append(runs, NewRun(job_id))
    /\ UNCHANGED <<store, queue, starts, call>>

\* An invocation that tests neither job_id nor job_snapshot.exists and reads
\* the inputs of a missing document as None.
RunGetUnchecked(r) ==
    /\ runs[r].pc = "get"
    /\ \/ runs' = [runs EXCEPT ![r] = Catch(@, STORE_ERROR, FALSE)]
       \/ runs' = [runs EXCEPT
                     ![r].pc = "stream",
                     ![r].state = IF runs[r].job_id \in DOMAIN store
                                  THEN AgentState(store[runs[r].job_id].input,
                                                  store[runs[r].job_id].url)
                                  ELSE AgentState(NULL, NULL)]
    /\ UNCHANGED <<store, queue, starts, call>>

RunGet(r) ==
    /\ runs[r].pc = "get"
    /\ IF runs[r].job_id = NO_JOB_ID
       THEN \/ runs' = [runs EXCEPT ![r] = Catch(@, REQUEST_ERROR, FALSE)]
            \/ runs' = [runs EXCEPT ![r].pc = "done",
                                    ![r].resp = "No job_id provided"]
       ELSE \/ runs' = [runs EXCEPT ![r] = Catch(@, STORE_ERROR, FALSE)]
            \/ IF runs[r].job_id \notin DOMAIN store
               THEN runs' = [runs EXCEPT ![r].pc = "done",
                                         ![r].resp = "Job not found"]
               ELSE LET job_data == store[runs[r].job_id]
                    IN  runs' = [runs EXCEPT
                                   ![r].pc = "stream",
                                   ![r].state = AgentState(job_data.input,
                                                           job_data.url)]
    /\ UNCHANGED <<store, queue, starts, call>>

AfterUpdate(run) ==
    [run EXCEPT !.node = Edge(run.node),
                !.pc = IF Edge(run.node) = END THEN "complete" ELSE "stream"]

\* One turn of the loop over graph.stream: the next node runs, its name is
\* appended and the document is updated.  The node works on the run's own
\* state, so that the turn is one step for every reader of the store.
RunStream(r) ==
    /\ runs[r].pc = "stream"
    /\ \E step \in NodeResults(runs[r].node, runs[r].state), updated \in BOOLEAN :
          LET steps_complete == Append(runs[r].steps_complete, runs[r].node)
          IN  IF step.raised
              THEN /\ runs' = [runs EXCEPT ![r] = Catch(@, step.msg, step.ok)]
                   /\ UNCHANGED store
              ELSE IF ~updated \/ runs[r].job_id \notin DOMAIN store
              THEN /\ runs' = [runs EXCEPT ![r] = Catch(@, STORE_ERROR, FALSE)]
                   /\ UNCHANGED store
              ELSE /\ store' = [store EXCEPT ![runs[r].job_id] =
                                   StageUpdate(@, steps_complete)]
                   /\ runs' = [runs EXCEPT
                                 ![r] = AfterUpdate([@ EXCEPT !.state = step.state,
                                                              !.steps_complete = steps_complete,
                                                              !.all_ok = @ /\ step.ok])]
    /\ UNCHANGED <<queue, starts, call>>

RunComplete(r) ==
    /\ runs[r].pc = "complete"
    /\ \/ /\ runs' = [runs EXCEPT ![r] = Catch(@, STORE_ERROR, FALSE)]
          /\ UNCHANGED store
       \/ /\ runs[r].job_id \in DOMAIN store
          /\ store' = [store EXCEPT ![runs[r].job_id] =
                          CompleteUpdate(@, runs[r].state)]
          /\ runs' = [runs EXCEPT ![r].pc = "done",
                                  ![r].resp = "Job completed successfully"]
    /\ UNCHANGED <<queue, starts, call>>

\* if job_id: a request that names no job updates nothing; the update of a
\* document that does not exist raises.
RunHandler(r) ==
    /\ runs[r].pc = "handler"
    /\ \/ /\ runs[r].job_id # NO_JOB_ID
          /\ runs' = [runs EXCEPT ![r].pc = "done", ![r].resp = "raised",
                                  ![r].all_ok = FALSE]
          /\ UNCHANGED store
       \/ /\ runs[r].job_id \in DOMAIN store
          /\ store' = [store EXCEPT ![runs[r].job_id] =
                          ErrorUpdate(@, runs[r].exc)]
          /\ runs' = [runs EXCEPT ![r].pc = "done", ![r].resp = "Job failed"]
       \/ /\ runs[r].job_id = NO_JOB_ID
          /\ runs' = [runs EXCEPT ![r].pc = "done", ![r].resp = "Job failed"]
          /\ UNCHANGED store
    /\ UNCHANGED <<queue, starts, call>>

RunStep(r) ==
    RunGet(r) \/ RunStream(r) \/ RunComplete(r) \/ RunHandler(r)

(***************************************************************************)
(* agents/linkedin_agent.py: LinkedInAgent.  get_company_data gives        *)
(* [raised, data, calls]: whether an exception leaves it, the dict it      *)
(* returns, and the external calls it made, in order.                      *)
(***************************************************************************)
REWRITTEN == <<"third-person description">>

EXTRACTED_DEFAULT == <<"Extracted from website.">>

NOT_FOUND == <<"Could not find company data from LinkedIn or website">>

DictTruthy(d) == d.kind = "nonobj" \/ (d.kind = "dict" /\ d # EmptyDict)

find_linkedin_url(answer) ==
    IF answer = RAISE
    THEN NULL
    ELSE LET url == Strip(answer)
         IN  IF StartsWith(url, <<"http">>) /\ Contains(url, <<"/company", "/">>)
             THEN url
             ELSE NULL

find_website_url(answer) ==
    IF answer = RAISE
    THEN NULL
    ELSE LET url == Strip(answer)
         IN  IF StartsWith(url, <<"http">>) THEN url ELSE NULL

\* A lookup whose result is thrown away.
ScrapeLinkedinGivesNone(response, rewritten) == NotADict("none")

\* rewritten: the description the generation call gives, or RAISE.
transform_linkedin_description(linkedin_data, rewritten) ==
    IF linkedin_data.kind # "dict" \/ rewritten = RAISE
    THEN linkedin_data
    ELSE [linkedin_data EXCEPT !.description = Strip(rewritten)]

\* response: the JSON body of the lookup, or kind "raise" (the request raises)
\* or "http_error" (the response is not ok).
scrape_linkedin(response, rewritten) ==
    IF response.kind \in {"raise", "http_error"}
    THEN NotADict("none")
    ELSE transform_linkedin_description(response, rewritten)

\* scrape: "ok", "http_error" or "raise"; summary: the generated extract, or
\* RAISE.
scrape_website_fallback(company_name, url, scrape, summary) ==
    IF scrape = "ok"
    THEN [EmptyDict EXCEPT
            !.name = company_name, !.url = url,
            !.website_extract = IF summary = RAISE \/ ~Truthy(summary)
                                THEN EXTRACTED_DEFAULT ELSE summary,
            !.data_source = <<"website">>]
    ELSE [EmptyDict EXCEPT !.name = company_name, !.data_source = <<"none">>]

AgentResult(raised, data, calls) == [raised |-> raised, data |-> data, calls |-> calls]

get_company_data(company_name, provided_url, env) ==
    LET given == IF Truthy(provided_url) THEN Strip(provided_url) ELSE NULL
        given_linkedin == /\ Truthy(given)
                          /\ Contains(given, <<"linkedin.com", "/company", "/">>)
        website_given == IF Truthy(given) /\ ~given_linkedin THEN given ELSE NULL
        linkedin_url == IF given_linkedin THEN given ELSE find_linkedin_url(env.find)
        calls1 == IF given_linkedin THEN <<>> ELSE <<"find_linkedin_url">>
        looked_up == Truthy(linkedin_url)
        data == IF looked_up
                THEN scrape_linkedin(env.lookup, env.rewrite)
                ELSE NotADict("none")
        calls2 == calls1
                  \o (IF looked_up THEN <<"lookup">> ELSE <<>>)
                  \o (IF looked_up /\ env.lookup.kind = "dict"
                      THEN <<"rewrite">> ELSE <<>>)
        found == find_website_url(env.wfind)
    IN  IF looked_up /\ data.kind = "nonobj"
        THEN \* data.get raises AttributeError outside every try
             AgentResult(TRUE, NotADict("none"), calls2)
        ELSE IF looked_up /\ DictTruthy(data) /\ data.success # <<"False">>
        THEN AgentResult(FALSE, [data EXCEPT !.data_source = <<"linkedin">>], calls2)
        ELSE IF Truthy(website_given)
        THEN AgentResult(FALSE,
                 scrape_website_fallback(company_name, website_given,
                                         env.scrape, env.summary),
                 calls2 \o <<"scrape">>)
        ELSE IF Truthy(found)
        THEN AgentResult(FALSE,
                 scrape_website_fallback(company_name, found, env.scrape, env.summary),
                 calls2 \o <<"find_website_url", "scrape">>)
        ELSE AgentResult(FALSE,
                 [EmptyDict EXCEPT !.error = NOT_FOUND, !.data_source = <<"none">>],
                 calls2 \o <<"find_website_url">>)

(***************************************************************************)
(* The Profile stage on its own: one call of the graph's nodes start,      *)
(* find_linkedin_url and scrape_linkedin, or one call of                   *)
(* LinkedInAgent.get_company_data, over every seed and every outcome of    *)
(* the external calls.  call holds the call being made.                    *)
(***************************************************************************)
NoCall == [fn |-> "none"]

WebsiteAnswers == {RAISE, WEB, JUNK}

ScrapeOutcomes == {"ok", "http_error", "raise"}

AgentLookups == LookupOutcomes \cup {NotADict("http_error")}

ProfileEnvs ==
    [find : FindAnswers, lookup : AgentLookups, rewrite : {RAISE, REWRITTEN},
     wfind : WebsiteAnswers, scrape : ScrapeOutcomes, summary : {RAISE, SUMMARY}]

\* What the graph's scrape_linkedin node draws: the scrape and the generation
\* of the fallback share one try.
GraphEnvs ==
    {e \in ProfileEnvs : /\ e.lookup.kind # "http_error"
                         /\ e.rewrite = REWRITTEN /\ e.wfind = RAISE
                         /\ e.scrape \in {"ok", "raise"} /\ e.summary = SUMMARY}

ProfileStage(user_input, url_input, env) ==
    LET s1 == start_node(AgentState(user_input, url_input)).state
        s2 == find_linkedin_url_node(s1, env.find).state
        result == scrape_linkedin_node(s2, env.lookup, env.scrape = "ok")
    IN  [fn |-> "scrape_linkedin_node", provided_url |-> url_input, env |-> env,
         looked_up |-> Truthy(DictGet(s2.linkedin_url)),
         has_website |-> Truthy(DictGet(s2.website_url)),
         raised |-> result.raised, data |-> result.state.linkedin_data,
         data_source |-> result.state.data_source,
         state |-> result.state, calls |-> <<>>]

AgentCall(company_name, url_input, env) ==
    LET result == get_company_data(company_name, url_input, env)
    IN  [fn |-> "get_company_data", provided_url |-> url_input, env |-> env,
         looked_up |-> "lookup" \in {result.calls[i] : i \in DOMAIN result.calls},
         has_website |-> "scrape" \in {result.calls[i] : i \in DOMAIN result.calls},
         raised |-> result.raised, data |-> result.data,
         data_source |-> result.data.data_source,
         state |-> AgentState(company_name, url_input), calls |-> result.calls]

CallProfileStage ==
    /\ call = NoCall
    /\ \E url_input \in Urls, env \in GraphEnvs :
          call' = ProfileStage(ACME, url_input, env)
    /\ UNCHANGED <<store, queue, runs, starts>>

CallGetCompanyData ==
    /\ call = NoCall
    /\ \E url_input \in Urls, env \in ProfileEnvs :
          call' = AgentCall(ACME, url_input, env)
    /\ UNCHANGED <<store, queue, runs, starts>>

ReturnCall ==
    /\ call # NoCall
    /\ call' = NoCall
    /\ UNCHANGED <<store, queue, runs, starts>>

(***************************************************************************)
(* agents/client_summary_agent.py: ClientSummaryAgent.  A brief is a       *)
(* record of the six keys of ClientBrief; a key that is not in the dict is *)
(* ABSENT (kind "absent" for a list).  Lengths are counted in tokens.      *)
(***************************************************************************)
NA == <<"N/A">>

AboutBudget == 500

WebsiteBudget == 3000

SummaryBudget == 600

HiringBudget == 400

BulletBudget == 180

MaxBullets == 6

SampleTitles == 3

Take(s, n) == SubSeq(s, 1, IF Len(s) < n THEN Len(s) ELSE n)

StrList(kind, items) == [kind |-> kind, items |-> items]

RECURSIVE Join(_, _)
Join(parts, sep) ==
    IF parts = <<>> THEN <<>>
    ELSE IF Len(parts) = 1 THEN Head(parts)
    ELSE Head(parts) \o <<sep>> \o Join(Tail(parts), sep)

Brief(company_name, summary, hiring_context, key_points, approach, sources_used) ==
    [kind |-> "brief", company_name |-> company_name, summary |-> summary,
     hiring_context |-> hiring_context, key_points |-> key_points,
     approach |-> approach, sources_used |-> sources_used]

Part(label, value) == IF Truthy(DictGet(value)) THEN <<<<label>> \o value>> ELSE <<>>

JobTitle(job) == DictGetDefault(job.title, <<"Untitled">>)

build_prompt(company_name, linkedin_data, website_markdown, news_summary, job_listings) ==
    LET parts == (IF Truthy(DictGet(linkedin_data.description))
                  THEN <<<<"About: ">> \o Take(linkedin_data.description, AboutBudget)>>
                  ELSE <<>>)
                 \o Part("Industry: ", linkedin_data.industry)
                 \o Part("HQ: ", linkedin_data.headquarters)
                 \o Part("Size: ", linkedin_data.company_size)
                 \o Part("Founded: ", linkedin_data.founded)
        listed == job_listings.kind = "list" /\ job_listings.items # <<>>
        sample == Take(job_listings.items, SampleTitles)
    IN  [company_name |-> company_name,
         website_excerpt |-> IF Truthy(website_markdown)
                             THEN Take(website_markdown, WebsiteBudget) ELSE NA,
         linkedin_excerpt |-> IF linkedin_data.kind = "dict" /\ parts # <<>>
                              THEN Join(parts, "\n") ELSE NA,
         news_summary |-> IF Truthy(news_summary) THEN news_summary ELSE NA,
         jobs_count |-> IF listed THEN Len(job_listings.items) ELSE 0,
         top_titles |-> IF listed
                        THEN [i \in DOMAIN sample |-> JobTitle(sample[i])]
                        ELSE <<>>]

NotBlank(bullet) == Strip(bullet) # <<>>

DropEmpty(v) == IF v = EMPTY THEN ABSENT ELSE v

DropEmptyList(l) == IF l.items = <<>> THEN StrList("absent", <<>>) ELSE l

postprocess(brief) ==
    LET kept == SelectSeq(Take(brief.key_points.items, MaxBullets), NotBlank)
    IN  Brief(DropEmpty(brief.company_name),
              DropEmpty(Take(brief.summary, SummaryBudget)),
              DropEmpty(Take(brief.hiring_context, HiringBudget)),
              DropEmptyList(StrList("list", [i \in DOMAIN kept |->
                                                Take(kept[i], BulletBudget)])),
              DropEmpty(brief.approach),
              DropEmptyList(brief.sources_used))

\* A fallback that has a summary only when there is a profile.
FallbackBriefNoSummary(company_name, linkedin_data) ==
    [raised |-> FALSE,
     brief |-> Brief(company_name,
                     IF DictTruthy(linkedin_data)
                     THEN company_name \o <<" is a company", ".">> ELSE EMPTY,
                     <<"No current hiring signals available">>,
                     StrList("list", <<<<"Company profile available for review">>>>),
                     <<"Standard">>, StrList("list", <<>>))]

\* if linkedin_data: a dict with at least one key, or any other true value,
\* whose .get raises.
fallback_brief(company_name, linkedin_data) ==
    LET summary == company_name \o <<" is a company">>
        industry == IF Truthy(DictGet(linkedin_data.industry))
                    THEN <<" in the ">> \o linkedin_data.industry \o <<" industry">>
                    ELSE <<>>
        hq == IF Truthy(DictGet(linkedin_data.headquarters))
              THEN <<", headquartered in ">> \o linkedin_data.headquarters
              ELSE <<>>
    IN  IF ~DictTruthy(linkedin_data)
        THEN [raised |-> FALSE,
              brief |-> Brief(company_name, summary,
                              <<"No current hiring signals available">>,
                              StrList("list", <<<<"Company profile available for review">>>>),
                              <<"Standard">>, StrList("list", <<>>))]
        ELSE IF linkedin_data.kind # "dict"
        THEN [raised |-> TRUE, brief |-> [kind |-> "none"]]
        ELSE [raised |-> FALSE,
              brief |-> Brief(company_name, summary \o industry \o hq \o <<".">>,
                              <<"No current hiring signals available">>,
                              StrList("list", <<<<"Company profile available for review">>>>),
                              <<"Standard">>, StrList("list", <<<<"linkedin#basic">>>>))]

\* generated: the ClientBrief the structured generation call gives, or kind
\* "raise".  The log line after _postprocess reads brief_dict['summary'] and
\* brief_dict['sources_used'].
create_brief(company_name, linkedin_data, website_markdown, news_summary, job_listings, generated) ==
    LET prompt == build_prompt(company_name, linkedin_data, website_markdown,
                               news_summary, job_listings)
        brief_dict == postprocess(generated)
        fallback == fallback_brief(company_name, linkedin_data)
    IN  IF /\ generated.kind = "brief"
           /\ brief_dict.summary # ABSENT
           /\ brief_dict.sources_used.kind # "absent"
        THEN [fn |-> "create_brief", raised |-> FALSE, brief |-> brief_dict,
              fallback |-> FALSE, prompt |-> prompt, generations |-> 1,
              linkedin_data |-> linkedin_data, company_name |-> company_name,
              generated |-> generated]
        ELSE [fn |-> "create_brief", raised |-> fallback.raised,
              brief |-> fallback.brief, fallback |-> TRUE, prompt |-> prompt,
              generations |-> 1, linkedin_data |-> linkedin_data,
              company_name |-> company_name, generated |-> generated]

(***************************************************************************)
(* agents/news_agent.py: NewsAgent.get_recent_news_summary.  search is the *)
(* result of the search or RAISE, generated the content of the generation  *)
(* call or RAISE.                                                          *)
(***************************************************************************)
COULD_NOT_RETRIEVE == <<"Could not retrieve recent news.">>

NEWS_CONTENT == <<" ">> \o NEWS_SUMMARY \o <<" ">>

get_recent_news_summary(company_name, search, generated) ==
    [fn |-> "get_recent_news_summary", search |-> search, generated |-> generated,
     raised |-> FALSE,
     summary |-> IF search = RAISE \/ generated = RAISE
                 THEN COULD_NOT_RETRIEVE ELSE Strip(generated),
     searches |-> 1,
     generations |-> IF search = RAISE THEN 0 ELSE 1,
     job_openings |-> JobList("absent", <<>>)]

(***************************************************************************)
(* The News and Jobs stages of the graph on their own: the nodes           *)
(* find_jobs_and_news, scrape_careers_page and generate_final_report run   *)
(* from the state start_node gives for a seed with a website URL.          *)
(* generated is the recent_news_summary of the structured generation call, *)
(* or RAISE; jobs its job_openings.                                        *)
(***************************************************************************)
JOB_NO_LINK == [JOB EXCEPT !.link = EMPTY]

GeneratedJobs == {<<>>, <<JOB>>, <<JOB_NO_LINK>>, <<JOB, JOB_NO_LINK, JOB>>}

NewsAndJobsStages(search, generated, jobs) ==
    LET s1 == start_node(AgentState(ACME, WEB)).state
        s2 == find_jobs_and_news_node(s1, CAREERS, search).state
        s3 == scrape_careers_page_node(s2, TRUE).state
        result == generate_final_report_node(s3, generated # RAISE, jobs, generated)
    IN  [fn |-> "generate_final_report_node", search |-> search,
         generated |-> generated, raised |-> result.raised,
         summary |-> result.state.recent_news_summary,
         searches |-> 1, generations |-> 1,
         job_openings |-> result.state.job_openings]

(***************************************************************************)
(* The Init stage on its own: start_node over every seed.                  *)
(***************************************************************************)
LI_BARE == <<"http", "s://", "www.", "linkedin.com", "/company">>

SeedInputs == {ACME, <<" ">> \o ACME \o <<" ">>, WEB, LI}

SeedUrls == Urls \cup {EMPTY, LI_BARE}

InitStage(user_input, url_input) ==
    LET result == start_node(AgentState(user_input, url_input))
    IN  [fn |-> "start_node", initial_input |-> user_input,
         provided_url |-> url_input, raised |-> result.raised,
         state |-> result.state]

(***************************************************************************)
(* agents/jobs_agent.py: JobsDiscoveryAgent.  One call of discover_jobs is *)
(* the record call, and pc is the place the call has reached:              *)
(*   locate  _find_careers_page                      (lines 54-99)         *)
(*   submit  the POST of _extract_jobs               (lines 142-161)       *)
(*   poll    one turn of the polling loop            (lines 168-211)       *)
(*   done    discover_jobs has returned                                    *)
(* handle is the outcome of the POST, status and data the answer of the    *)
(* last poll, nonterminal and poll_errors count the polls that answered a  *)
(* status that ends nothing and the polls that raised.                     *)
(***************************************************************************)
max_retries == 20

HOMEPAGE == <<"acme.com">>

NO_CAREERS_FOUND == <<"No careers page found">>

\* search: the search returns or raises; chosen: the url of the CareersURL
\* the generation call gives, or RAISE.
find_careers_page(search, chosen) ==
    IF search = RAISE \/ chosen = RAISE
    THEN NULL
    ELSE IF Truthy(chosen) /\ StartsWith(chosen, <<"http">>) THEN chosen ELSE NULL

LocateAnswers == {RAISE, CAREERS, WEB, HOMEPAGE, EMPTY}

XJob(title, url) == [title |-> title, location |-> <<"Sydney">>, url |-> url]

APPLY == CAREERS \o <<"/1">>

ExtractedJobs ==
    {<<>>,
     <<XJob(<<"Engineer">>, APPLY)>>,
     <<XJob(<<"Engineer">>, EMPTY)>>,
     <<XJob(EMPTY, APPLY), XJob(<<"Engineer">>, ABSENT), XJob(<<"Engineer">>, APPLY),
       XJob(<<"Analyst">>, NULL), XJob(EMPTY, APPLY)>>}

HasUrl(job) == Truthy(DictGet(job.url))

valid_jobs(jobs_data, source_url) ==
    LET kept == SelectSeq(jobs_data, HasUrl)
    IN  [i \in DOMAIN kept |->
            [kept[i] EXCEPT !.url = DictGetDefault(kept[i].url, source_url)]]

JobsResult(job_listings, careers_url, error) ==
    [job_listings |-> job_listings, careers_url |-> careers_url, error |-> error]

NewJobsCall(company_name) ==
    [fn |-> "discover_jobs", pc |-> "locate", company_name |-> company_name,
     careers_url |-> NULL, handle |-> "none", submits |-> 0, polls |-> 0,
     nonterminal |-> 0, poll_errors |-> 0, status |-> "none",
     data |-> JobList("absent", <<>>), raised |-> FALSE,
     result |-> JobsResult(<<>>, ABSENT, ABSENT)]

\* _extract_jobs has returned jobs to discover_jobs.
Extracted(c, jobs) ==
    [c EXCEPT !.pc = "done", !.result = JobsResult(jobs, c.careers_url, ABSENT)]

\* A located URL is extracted without a test of what _find_careers_page gave.
AfterLocateAlwaysExtracts(c, careers_url) ==
    [c EXCEPT !.careers_url = careers_url, !.pc = "submit"]

AfterLocate(c, careers_url) ==
    IF ~Truthy(careers_url)
    THEN [c EXCEPT !.careers_url = careers_url, !.pc = "done",
                   !.result = JobsResult(<<>>, ABSENT, NO_CAREERS_FOUND)]
    ELSE [c EXCEPT !.careers_url = careers_url, !.pc = "submit"]

SubmitOutcomes == {"raise", "http_error", "no_id", "ok"}

AfterSubmit(c, outcome) ==
    LET c1 == [c EXCEPT !.submits = @ + 1, !.handle = outcome]
    IN  IF outcome = "ok" THEN [c1 EXCEPT !.pc = "poll"] ELSE Extracted(c1, <<>>)

Statuses == {"queued", "processing", "completed", "failed", "cancelled"}

PollAnswer(status, data) == [status |-> status, data |-> data]

PollAnswers ==
    {PollAnswer("raise", JobList("absent", <<>>))}
    \cup {PollAnswer(s, JobList("absent", <<>>)) : s \in Statuses}
    \cup {PollAnswer("completed", JobList("list", j)) : j \in ExtractedJobs}

\* The budget of a loop that makes one turn more than max_retries.
BudgetLeftOneMore(polls) == polls <= max_retries

BudgetLeft(polls) == polls < max_retries

\* The loop is left when the budget is used up: the timeout of line 213.
NextTurn(c) == IF BudgetLeft(c.polls) THEN c ELSE Extracted(c, <<>>)

\* A loop that goes on polling after the answer completed.
AfterPollIgnoresCompleted(c, answer) ==
    LET c1 == [c EXCEPT !.polls = @ + 1, !.status = answer.status, !.data = answer.data]
    IN  IF answer.status = "raise"
        THEN NextTurn([c1 EXCEPT !.poll_errors = @ + 1])
        ELSE IF answer.status \in {"failed", "cancelled"}
        THEN Extracted(c1, <<>>)
        ELSE NextTurn([c1 EXCEPT !.nonterminal = @ + 1])

\* A loop that goes on polling after the answer failed or cancelled.
AfterPollIgnoresFailed(c, answer) ==
    LET c1 == [c EXCEPT !.polls = @ + 1, !.status = answer.status, !.data = answer.data]
    IN  IF answer.status = "raise"
        THEN NextTurn([c1 EXCEPT !.poll_errors = @ + 1])
        ELSE IF answer.status = "completed"
        THEN Extracted(c1, valid_jobs(answer.data.items, c.careers_url))
        ELSE NextTurn([c1 EXCEPT !.nonterminal = @ + 1])

AfterPoll(c, answer) ==
    LET c1 == [c EXCEPT !.polls = @ + 1, !.status = answer.status, !.data = answer.data]
    IN  IF answer.status = "raise"
        THEN NextTurn([c1 EXCEPT !.poll_errors = @ + 1])
        ELSE IF answer.status = "completed"
        THEN Extracted(c1, valid_jobs(answer.data.items, c.careers_url))
        ELSE IF answer.status \in {"failed", "cancelled"}
        THEN Extracted(c1, <<>>)
        ELSE NextTurn([c1 EXCEPT !.nonterminal = @ + 1])

(***************************************************************************)
(* The agents and the stages on their own: call holds one call of          *)
(* create_brief, get_recent_news_summary, start_node or the News and Jobs  *)
(* nodes, over every input and every outcome of the external calls, or the *)
(* call of discover_jobs that is under way.                                *)
(***************************************************************************)
GraphNoneProfile ==
    scrape_company_website_fallback(start_node(AgentState(ACME, NULL)).state, FALSE)

BriefProfiles ==
    {NotADict("none"), NotADict("nonobj"), EmptyDict, GraphNoneProfile,
     [EmptyDict EXCEPT !.error = NOT_FOUND, !.data_source = <<"none">>],
     scrape_website_fallback(ACME, WEB, "http_error", SUMMARY),
     scrape_website_fallback(ACME, WEB, "ok", SUMMARY),
     [LookupFound(LI_WEB) EXCEPT !.data_source = <<"linkedin">>],
     [LookupFound(LI_WEB) EXCEPT !.headquarters = <<"Sydney">>,
                                 !.data_source = <<"linkedin">>]}

GOOD_BRIEF ==
    Brief(ACME, <<"Acme", " ", "builds", " ", "robots">>, <<"Hiring engineers">>,
          StrList("list", <<<<"Robots">>, <<" ">>, <<"Sydney">>>>),
          <<"Technical and direct">>, StrList("list", <<<<"linkedin#description">>>>))

\* A text of n characters, each character a token.
Chars(n, c) == [i \in 1..n |-> c]

\* A generated brief whose texts are one character over what _postprocess
\* keeps, with eight bullets: a blank one, and one that is blanks up to the
\* budget and then a letter.
LONG_BRIEF ==
    Brief(ACME, Chars(SummaryBudget + 1, "x"), Chars(HiringBudget + 1, "x"),
          StrList("list", <<Chars(BulletBudget + 1, "x"), <<" ">>, <<"Robots">>,
                            Chars(BulletBudget, " ") \o <<"x">>, <<"Sydney">>,
                            <<"Growing">>, <<"Funded">>, <<"Remote">>>>),
          Chars(SummaryBudget + 1, "x"), StrList("list", <<<<"website#about">>>>))

GeneratedBriefs ==
    {[kind |-> "raise"], GOOD_BRIEF, LONG_BRIEF,
     [GOOD_BRIEF EXCEPT !.summary = EMPTY],
     [GOOD_BRIEF EXCEPT !.sources_used = StrList("list", <<>>)],
     [GOOD_BRIEF EXCEPT !.key_points = StrList("list", <<>>)]}

BriefJobs == {JobList("none", <<>>)} \cup {JobList("list", j) : j \in ExtractedJobs}

CallCreateBrief ==
    /\ call = NoCall
    /\ \E linkedin_data \in BriefProfiles, website_markdown \in {NULL, MARKDOWN},
          news_summary \in {NULL, NEWS_SUMMARY}, job_listings \in BriefJobs,
          generated \in GeneratedBriefs :
          call' = create_brief(ACME, linkedin_data, website_markdown, news_summary,
                               job_listings, generated)
    /\ UNCHANGED <<store, queue, runs, starts>>

CallNewsAgent ==
    /\ call = NoCall
    /\ \E search \in NewsResults, generated \in {RAISE, NEWS_CONTENT} :
          call' = get_recent_news_summary(ACME, search, generated)
    /\ UNCHANGED <<store, queue, runs, starts>>

CallGraphStages ==
    /\ call = NoCall
    /\ \E search \in NewsResults, generated \in {RAISE, NEWS_SUMMARY},
          jobs \in GeneratedJobs :
          call' = NewsAndJobsStages(search, generated, jobs)
    /\ UNCHANGED <<store, queue, runs, starts>>

\* The searches of the Jobs and of the News part from one state the Profile
\* stage leaves, each alone and in both orders.
SearchOrders(st, careers, news) ==
    LET jobs_alone == careers_search(st, careers)
        news_alone == news_search(st, news)
    IN  [fn |-> "find_jobs_and_news_node", state |-> st, careers |-> careers,
         news |-> news, jobs_alone |-> jobs_alone, news_alone |-> news_alone,
         jobs_first |-> IF jobs_alone.raised
                        THEN jobs_alone
                        ELSE news_search(jobs_alone.state, news),
         news_first |-> careers_search(news_alone.state, careers),
         node |-> find_jobs_and_news_node(st, careers, news),
         raised |-> jobs_alone.raised]

CallSearchOrders ==
    /\ call = NoCall
    /\ \E url_input \in Urls, env \in GraphEnvs, careers \in CareersAnswers,
          news \in NewsResults :
          /\ ~ProfileStage(ACME, url_input, env).raised
          /\ call' = SearchOrders(ProfileStage(ACME, url_input, env).state,
                                  careers, news)
    /\ UNCHANGED <<store, queue, runs, starts>>

CallStartNode ==
    /\ call = NoCall
    /\ \E user_input \in SeedInputs, url_input \in SeedUrls :
          call' = InitStage(user_input, url_input)
    /\ UNCHANGED <<store, queue, runs, starts>>

CallDiscoverJobs ==
    /\ call = NoCall
    /\ call' = NewJobsCall(ACME)
    /\ UNCHANGED <<store, queue, runs, starts>>

Locate ==
    /\ call.fn = "discover_jobs"
    /\ call.pc = "locate"
    /\ \E search \in NewsResults, chosen \in LocateAnswers :
          call' = AfterLocate(call, find_careers_page(search, chosen))
    /\ UNCHANGED <<store, queue, runs, starts>>

Submit ==
    /\ call.fn = "discover_jobs"
    /\ call.pc = "submit"
    /\ \E outcome \in SubmitOutcomes : call' = AfterSubmit(call, outcome)
    /\ UNCHANGED <<store, queue, runs, starts>>

Poll ==
    /\ call.fn = "discover_jobs"
    /\ call.pc = "poll"
    /\ \E answer \in PollAnswers : call' = AfterPoll(call, answer)
    /\ UNCHANGED <<store, queue, runs, starts>>

\* The call has returned to its caller.
ReturnAgentCall ==
    /\ call.fn = "discover_jobs" => call.pc = "done"
    /\ ReturnCall

(***************************************************************************)
(* Specifications.  Spec: every job has the one task start_research        *)
(* creates for it.  SpecRedeliver: a task may be delivered again.          *)
(***************************************************************************)
Init ==
    /\ store = <<>>
    /\ queue = {}
    /\ runs = <<>>
    /\ starts = <<>>
    /\ call = NoCall

DeliverTask == \E job_id \in 1..MaxJobs : Deliver(job_id)

RedeliverTask == \E job_id \in 1..MaxJobs : Redeliver(job_id)

RunGetStep == \E r \in DOMAIN runs : RunGet(r)

RunStreamStep == \E r \in DOMAIN runs : RunStream(r)

RunCompleteStep == \E r \in DOMAIN runs : RunComplete(r)

RunHandlerStep == \E r \in DOMAIN runs : RunHandler(r)

Next ==
    \/ StartResearch
    \/ DeliverTask
    \/ RunGetStep
    \/ RunStreamStep
    \/ RunCompleteStep
    \/ RunHandlerStep

Spec == Init /\ [][Next]_vars

NextRedeliver == Next \/ RedeliverTask

SpecRedeliver == Init /\ [][NextRedeliver]_vars

NextProfile == CallProfileStage \/ CallGetCompanyData \/ ReturnCall

SpecProfile == Init /\ [][NextProfile]_vars

(***************************************************************************)
(* SpecTwoJobs: start_research has accepted two requests, and the runs of  *)
(* the two jobs interleave.                                                *)
(***************************************************************************)
GLOBEX == <<"Globex">>

InitTwoJobs ==
    /\ store = <<JobData(1, ACME, WEB), JobData(2, GLOBEX, LI)>>
    /\ queue = {1, 2}
    /\ runs = <<>>
    /\ starts = <<Response(202, 1, ACME, WEB), Response(202, 2, GLOBEX, LI)>>
    /\ call = NoCall

DeliverAnyTask == \E job_id \in queue : Deliver(job_id)

NextTwoJobs ==
    \/ DeliverAnyTask
    \/ RunGetStep
    \/ RunStreamStep
    \/ RunCompleteStep
    \/ RunHandlerStep

SpecTwoJobs == InitTwoJobs /\ [][NextTwoJobs]_vars

(***************************************************************************)
(* SpecStray: start_research has accepted one request, and beside the task *)
(* of its job, requests arrive that name no job or a job without a         *)
(* document.                                                               *)
(***************************************************************************)
InitOneJob ==
    \E url_input \in Urls :
        /\ store = <<JobData(1, ACME, url_input)>>
        /\ queue = {1}
        /\ runs = <<>>
        /\ starts = <<Response(202, 1, ACME, url_input)>>
        /\ call = NoCall

StrayRequest == \E job_id \in {NO_JOB_ID, Len(store) + 1} : Stray(job_id)

NextStray == NextTwoJobs \/ StrayRequest

SpecStray == InitOneJob /\ [][NextStray]_vars

NextAgents ==
    \/ CallCreateBrief
    \/ CallNewsAgent
    \/ CallGraphStages
    \/ CallStartNode
    \/ CallSearchOrders
    \/ CallDiscoverJobs
    \/ Locate
    \/ Submit
    \/ Poll
    \/ ReturnAgentCall

SpecAgents == Init /\ [][NextAgents]_vars

(***************************************************************************)
(* Properties                                                              *)
(***************************************************************************)
IsPrefix(a, b) == Len(a) <= Len(b) /\ SubSeq(b, 1, Len(a)) = a

NoRepeat(s) == \A i, j \in DOMAIN s : i # j => s[i] # s[j]

JobOf(r) == store[runs[r].job_id]

Over(r) == runs[r].pc = "done"

LifecycleMoves ==
    {<<"pending", "running">>, <<"running", "complete">>,
     <<"pending", "error">>, <<"running", "error">>}

\* C1: the persisted status of a job only moves pending -> running -> complete
\* or pending/running -> error, and a status complete or error is never
\* changed by a later write, also when the task of the job is delivered again.
C1_StatusLifecycle ==
    [][\A j \in DOMAIN store :
          store'[j].status # store[j].status
              => <<store[j].status, store'[j].status>> \in LifecycleMoves]_vars

C3_CompleteHoldsResults ==
    \A j \in DOMAIN store :
        store[j].status = "complete"
            => /\ store[j].steps_complete = GraphNodes
               /\ \E r \in DOMAIN runs :
                     /\ runs[r].job_id = j
                     /\ Over(r)
                     /\ store[j].linkedin_data = runs[r].state.linkedin_data
                     /\ store[j].job_openings = runs[r].state.job_openings
                     /\ store[j].recent_news_summary = runs[r].state.recent_news_summary
                     /\ store[j].data_source = runs[r].state.data_source

C3_Witness ==
    \E j \in DOMAIN store :
        /\ store[j].status = "complete"
        /\ store[j].job_openings = JobList("list", <<JOB>>)

\* C4: for every seed and every outcome of the external capabilities every
\* node runs and the run ends with status complete: an invocation whose store
\* calls all return never enters the except clause.
C4_NoStageStopsThePipeline ==
    \A r \in DOMAIN runs :
        /\ runs[r].exc \in {EMPTY, STORE_ERROR}
        /\ (Over(r) /\ runs[r].exc = EMPTY)
               => /\ JobOf(r).status = "complete"
                  /\ JobOf(r).steps_complete = GraphNodes

\* C5: when an exception was raised in an invocation, the document ends with
\* status error and the exception's message, and the invocation answers
\* 'Job failed' instead of raising.
C5_ErrorIsRecordedAndNotRaised ==
    \A r \in DOMAIN runs :
        (Over(r) /\ runs[r].exc # EMPTY)
            => /\ runs[r].resp = "Job failed"
               /\ JobOf(r).status = "error"
               /\ JobOf(r).error = runs[r].exc

\* C6: a job whose invocation has run to its end has status complete or error;
\* it is not left in running (or pending).
C6_OverMeansTerminal ==
    \A r \in DOMAIN runs : Over(r) => JobOf(r).status \in {"complete", "error"}

SpecStages == <<"Init", "Profile", "News", "Jobs", "Brief">>

\* C7: for a seed with a company name and no URL and with every capability
\* succeeding, the run ends with status complete, steps_complete is the five
\* stage names in order, and the provenance is linkedin or website.
C7_NameOnlySeedCompletes ==
    \A r \in DOMAIN runs :
        (Over(r) /\ runs[r].all_ok /\ JobOf(r).url = NULL)
            => /\ JobOf(r).status = "complete"
               /\ JobOf(r).steps_complete = SpecStages
               /\ JobOf(r).data_source \in {<<"linkedin">>, <<"website">>}

Provenances == {<<"linkedin">>, <<"website">>, <<"none">>}

\* C8: for every outcome of the identity lookup, of the search for a website
\* and of the scrape, the Profile stage returns with a provenance that is
\* linkedin, website or none, and no exception leaves it.
C8_ProfileStageIsTotal ==
    call # NoCall => ~call.raised /\ call.data_source \in Provenances

LookupUsable == call.looked_up /\ call.env.lookup \in LookupsFound

\* C9: the provenance is linkedin exactly when the lookup gave usable data,
\* website exactly when it did not and a website was scraped, none otherwise,
\* and it equals the provenance tag inside the profile.
C9_ProvenanceIsExact ==
    (call # NoCall /\ ~call.raised)
        => /\ call.data_source =
                  IF LookupUsable THEN <<"linkedin">>
                  ELSE IF call.has_website /\ call.env.scrape = "ok"
                       THEN <<"website">>
                       ELSE <<"none">>
           /\ call.data.data_source \in {ABSENT, call.data_source}

\* C10: when the lookup raises, returns a value that is no object, an object
\* with success false or an object without a name, the Profile stage falls
\* through to the website fallback and does not report provenance linkedin.
C10_FailedLookupFallsThrough ==
    (call # NoCall /\ call.looked_up /\ call.env.lookup \notin LookupsFound)
        => /\ ~call.raised
           /\ call.data_source \in {<<"website">>, <<"none">>}

IsCall(fn) == call # NoCall /\ call.fn = fn

\* C11: when the profile has provenance none, the profile section of the
\* prompt of create_brief is N/A, and its fallback brief has empty sources_used
\* and a summary that names the company only.
C11_NoneProfileIsAbsent ==
    (IsCall("create_brief") /\ call.linkedin_data.data_source = <<"none">>)
        => /\ call.prompt.linkedin_excerpt = NA
           /\ call.fallback
                  => /\ ~call.raised
                     /\ call.brief.sources_used.items = <<>>
                     /\ call.brief.summary
                            \in {call.company_name \o <<" is a company">>,
                                 call.company_name \o <<" is a company", ".">>}

\* C12: when the raw input starts with a URL scheme, start_node does not use
\* it as the company name and sets linkedin_url or website_url from it.
C12_UrlInputIsNotTheName ==
    (IsCall("start_node") /\ StartsWith(Strip(call.initial_input), <<"http">>))
        => /\ call.state.company_name # Strip(call.initial_input)
           /\ \/ call.state.linkedin_url = Strip(call.initial_input)
              \/ call.state.website_url = Strip(call.initial_input)

CompanyPageMarker == <<"linkedin.com", "/company">>

IsNewsCall ==
    IsCall("get_recent_news_summary") \/ IsCall("generate_final_report_node")

\* C14: the News stage never raises; it gives the generated summary when the
\* search and the generation call both succeed and the fixed sentinel when
\* either fails; it makes at most one search and at most one generation call,
\* and no generation call when the search fails.
C14_NewsNeverAborts ==
    IsNewsCall
        => /\ ~call.raised
           /\ call.searches <= 1
           /\ call.generations <= 1
           /\ call.search = RAISE => call.generations = 0
           /\ call.summary = IF call.search = RAISE \/ call.generated = RAISE
                             THEN COULD_NOT_RETRIEVE
                             ELSE Strip(call.generated)

Located == IsCall("discover_jobs") /\ call.pc # "locate"

TerminalStatuses == {"completed", "failed", "cancelled"}

ExtractionFailed ==
    \/ ~Truthy(call.careers_url)
    \/ call.handle # "ok"
    \/ call.status # "completed"

\* C16: discover_jobs does not raise, and when locating fails, the submission
\* fails or gives no handle, the status is failed or cancelled or the polls
\* are used up, it returns no listings and an error string.
C16_EveryFailureSetsError ==
    (IsCall("discover_jobs") /\ call.pc = "done")
        => /\ ~call.raised
           /\ ExtractionFailed
                  => /\ call.result.job_listings = <<>>
                     /\ call.result.error # ABSENT

RECURSIVE WithUrl(_)
WithUrl(jobs) ==
    IF jobs = <<>> THEN <<>>
    ELSE IF Head(jobs).url \in {ABSENT, NULL, EMPTY}
         THEN WithUrl(Tail(jobs))
         ELSE <<Head(jobs)>> \o WithUrl(Tail(jobs))

C18_FailedStopsPolling ==
    (IsCall("discover_jobs") /\ call.status \in {"failed", "cancelled"})
        => /\ call.pc = "done"
           /\ call.polls = call.nonterminal + call.poll_errors + 1
           /\ call.result.job_listings = <<>>

C18_Witness ==
    /\ IsCall("discover_jobs")
    /\ call.status = "failed"
    /\ call.polls = 2
    /\ call.pc = "done"

\* C19: an extraction makes one submission and at most max_retries polls; a
\* poll that raises or answers a status that is not terminal uses one attempt
\* and polling goes on; after max_retries such polls the agent returns no
\* listings.
C19_PollsAreBounded ==
    IsCall("discover_jobs")
        => /\ call.submits <= 1
           /\ call.polls <= max_retries
           /\ call.polls > 0 => call.submits = 1
           /\ call.pc = "poll"
                  => /\ call.submits = 1
                     /\ call.polls < max_retries
                     /\ call.polls = call.nonterminal + call.poll_errors
           /\ (call.pc = "done" /\ call.handle = "ok"
                 /\ call.status \notin TerminalStatuses)
                  => /\ call.polls = max_retries
                     /\ call.result.job_listings = <<>>

C19_Witness ==
    /\ IsCall("discover_jobs")
    /\ call.pc = "done"
    /\ call.polls = max_retries
    /\ call.status = "processing"
    /\ call.poll_errors > 0
    /\ call.result.job_listings = <<>>

\* C20: the job listings a run produces are the extracted jobs that have a
\* non-empty apply URL, in the order of extraction, duplicates and jobs
\* without a title kept.
C20_ListingsHaveApplyUrl ==
    /\ (IsCall("discover_jobs") /\ call.pc = "done" /\ call.status = "completed")
           => call.result.job_listings = WithUrl(call.data.items)
    /\ IsCall("generate_final_report_node")
           => \A i \in DOMAIN call.job_openings.items :
                 call.job_openings.items[i].link # EMPTY

\* C21: for a profile that is absent or an object create_brief does not
\* raise and calls the generation capability at most once; when that call
\* fails it returns the fallback brief, which has the company name and a
\* non-empty summary and is determined by the company name and the profile.
C21_FallbackBriefIsTotal ==
    (IsCall("create_brief") /\ call.linkedin_data.kind \in {"none", "dict"})
        => /\ ~call.raised
           /\ call.generations <= 1
           /\ call.generated.kind = "raise"
                  => /\ call.fallback
                     /\ call.brief.company_name = call.company_name
                     /\ Truthy(call.brief.summary)
                     /\ call.brief =
                            fallback_brief(call.company_name, call.linkedin_data).brief

C21_Witness ==
    /\ IsCall("create_brief")
    /\ call.linkedin_data = NotADict("none")
    /\ call.generated.kind = "raise"
    /\ call.prompt.news_summary = NA
    /\ call.prompt.jobs_count = 0
    /\ call.brief.summary = ACME \o <<" is a company">>

NullResults(doc) ==
    /\ doc.linkedin_data = NotADict("none")
    /\ doc.job_openings = JobList("none", <<>>)
    /\ doc.recent_news_summary = NULL

\* C23: a start_research that stores a document stores one document, under an
\* id no document had, with status pending, no steps, null result fields and
\* null error and with the input and the url of the request; it changes no
\* other document, and a status pending changes only in a step of a
\* run_research_job of that job.
C23_StartCreatesOnePendingJob ==
    [][/\ starts' # starts
          => LET request == starts'[Len(starts')]
             IN  IF request.job_id = 0
                 THEN store' = store
                 ELSE /\ request.job_id \notin DOMAIN store
                      /\ DOMAIN store' = DOMAIN store \cup {request.job_id}
                      /\ \A j \in DOMAIN store : store'[j] = store[j]
                      /\ Truthy(request.input)
                      /\ LET doc == store'[request.job_id]
                         IN  /\ doc.id = request.job_id
                             /\ doc.status = "pending"
                             /\ doc.steps_complete = <<>>
                             /\ NullResults(doc)
                             /\ doc.error = NULL
                             /\ doc.input = request.input
                             /\ doc.url = request.url
       /\ \A j \in DOMAIN store :
             (store[j].status = "pending" /\ store'[j].status # "pending")
                 => \E r \in DOMAIN runs :
                       runs[r].job_id = j /\ runs'[r] # runs[r]]_vars

C23_Witness ==
    /\ Len(store) = 1
    /\ starts[1].resp = 202
    /\ store[1].status = "pending"
    /\ store[1].url = LI
    /\ runs = <<>>

\* The node that runs in the next turn of the loop is the (k+1)-th: k nodes
\* have finished.
Finished(run) ==
    IF run.pc = "complete"
    THEN Len(GraphNodes)
    ELSE (CHOOSE k \in DOMAIN GraphNodes : GraphNodes[k] = run.node) - 1

\* C24: in a run, between the end of the k-th node and the start of the next
\* the document has status running and steps_complete is the names of the
\* first k nodes in order.
C24_ProgressAfterEveryStage ==
    \A r \in DOMAIN runs :
        runs[r].pc \in {"stream", "complete"}
            => LET k == Finished(runs[r])
               IN  /\ JobOf(r).steps_complete = SubSeq(GraphNodes, 1, k)
                   /\ JobOf(r).status = IF k = 0 THEN "pending" ELSE "running"

C24_Witness ==
    \E r \in DOMAIN runs :
        /\ runs[r].pc = "stream"
        /\ runs[r].node = "scrape_careers_page"
        /\ JobOf(r).status = "running"
        /\ Len(JobOf(r).steps_complete) = 4

\* C25: a website_url or linkedin_url that holds a value before the
\* scrape_linkedin node still holds a value after it.
C25_UrlsAreNotDiscarded ==
    IsCall("scrape_linkedin_node")
        => /\ call.has_website => Truthy(DictGet(call.state.website_url))
           /\ call.looked_up => Truthy(DictGet(call.state.linkedin_url))

\* C26: no node changes initial_input or provided_url, and no step of
\* run_research_job changes the input or the url of a job document.
C26_SeedIsImmutable ==
    [][/\ \A j \in DOMAIN store :
             store'[j].input = store[j].input /\ store'[j].url = store[j].url
       /\ \A r \in DOMAIN runs :
             runs'[r].pc \in {"stream", "complete"}
                 => /\ runs'[r].state.initial_input = store'[runs[r].job_id].input
                    /\ runs'[r].state.provided_url = store'[runs[r].job_id].url]_vars

C26_Witness ==
    \E r \in DOMAIN runs :
        /\ Over(r)
        /\ JobOf(r).status = "complete"
        /\ JobOf(r).input = ACME
        /\ JobOf(r).url = WEB
        /\ runs[r].state.provided_url = WEB

\* What the document of a job is when the run of the job is the only run.
Alone(run, doc) ==
    LET created == JobData(doc.id, doc.input, doc.url)
    IN  /\ doc.id = run.job_id
        /\ run.pc = "get" => doc = created
        /\ run.pc \in {"stream", "complete"}
               => /\ run.state.initial_input = doc.input
                  /\ run.state.provided_url = doc.url
                  /\ doc = IF run.steps_complete = <<>>
                           THEN created
                           ELSE StageUpdate(created, run.steps_complete)
        /\ (run.pc = "done" /\ run.resp = "Job completed successfully")
               => /\ run.state.initial_input = doc.input
                  /\ doc = CompleteUpdate(StageUpdate(created, GraphNodes), run.state)
        /\ (run.pc = "done" /\ run.resp = "Job failed")
               => \E k \in 0..Len(GraphNodes) :
                     doc = ErrorUpdate(IF k = 0 THEN created
                                       ELSE StageUpdate(created, SubSeq(GraphNodes, 1, k)),
                                       run.exc)

\* C27: when the runs of two jobs interleave, a step of a run changes the
\* document of its own job only, the document of each job is what the run of
\* that job alone makes it, and the state of a run comes from its own job.
C27_RunsAreIsolated ==
    [][/\ \A j \in DOMAIN store :
             store'[j] # store[j]
                 => \E r \in DOMAIN runs : runs[r].job_id = j /\ runs'[r] # runs[r]
       /\ \A r \in DOMAIN runs' : Alone(runs'[r], store'[runs'[r].job_id])
       /\ \A q, r \in DOMAIN runs' : runs'[q].job_id = runs'[r].job_id => q = r]_vars

C27_Witness ==
    /\ Len(runs) = 2
    /\ \E q, r \in DOMAIN runs :
          /\ runs[q].job_id = 1
          /\ runs[r].job_id = 2
          /\ store[1].status = "complete"
          /\ store[1].linkedin_data.name = LI_NAME
          /\ store[2].status = "error"
          /\ store[2].steps_complete = SubSeq(GraphNodes, 1, 3)

\* C28: when the lookup returns an object with a name and without success
\* false, the scrape_linkedin node ends with data_source linkedin,
\* linkedin_data the object and company_name its name, for every seed.
C28_UsableLookupIsKept ==
    (IsCall("scrape_linkedin_node") /\ LookupUsable)
        => /\ call.data_source = <<"linkedin">>
           /\ call.data = call.env.lookup
           /\ call.state.company_name = call.env.lookup.name

CalledAt(name) == {i \in DOMAIN call.calls : call.calls[i] = name}

ProvidedWebsite ==
    /\ Truthy(call.provided_url)
    /\ ~Contains(Strip(call.provided_url), CompanyPageMarker)

\* C29: get_company_data scrapes a website only when the lookup gave no
\* usable data, searches for a website only when, besides, no website URL was
\* provided, searches before it scrapes, and scrapes at most once.
C29_FallbackChainIsStrict ==
    IsCall("get_company_data")
        => /\ Cardinality(CalledAt("scrape")) <= 1
           /\ Cardinality(CalledAt("find_website_url")) <= 1
           /\ CalledAt("scrape") # {} => ~LookupUsable
           /\ CalledAt("find_website_url") # {} => ~LookupUsable /\ ~ProvidedWebsite
           /\ (CalledAt("scrape") # {} /\ ~ProvidedWebsite)
                  => CalledAt("find_website_url") # {}
           /\ \A i \in CalledAt("find_website_url"), j \in CalledAt("scrape") : i < j

C29_Witness ==
    /\ IsCall("get_company_data")
    /\ call.calls = <<"find_linkedin_url", "lookup", "find_website_url", "scrape">>
    /\ call.data_source = <<"website">>

SearchedIdentity ==
    /\ call # NoCall
    /\ call.fn \in {"scrape_linkedin_node", "get_company_data"}
    /\ ~(Truthy(call.provided_url) /\ Contains(call.provided_url, CompanyPageMarker))

ValidIdentityAnswer ==
    /\ call.env.find # RAISE
    /\ StartsWith(Strip(call.env.find), <<"http">>)
    /\ Contains(Strip(call.env.find), <<"/company">>)

\* C30: an identity URL that comes from the search is looked up only when it
\* starts with a URL scheme and contains the company-page path segment.
C30_SearchedUrlIsValidated ==
    (SearchedIdentity /\ call.looked_up) => ValidIdentityAnswer

\* C31: get_company_data makes the description-rewrite generation call at
\* most once, never when the lookup result is classified as failed, and
\* whenever it makes the call the profile it returns has data_source linkedin.
C31_RewriteOnlyForLinkedinProfile ==
    IsCall("get_company_data")
        => /\ Cardinality(CalledAt("rewrite")) <= 1
           /\ CalledAt("rewrite") # {}
                  => /\ call.env.lookup.kind = "dict"
                     /\ call.env.lookup.success # <<"False">>
                     /\ ~call.raised
                     /\ call.data_source = <<"linkedin">>

\* The four priority patterns of a careers URL: a careers subdomain, an
\* applicant-tracking-system link, a /careers or /jobs path, a LinkedIn jobs
\* sub-page.
PriorityPattern(url) ==
    \/ Contains(url, <<"careers.">>) \/ Contains(url, <<"jobs.">>)
    \/ Contains(url, <<"greenhouse.io">>) \/ Contains(url, <<"lever.co">>)
    \/ Contains(url, <<"/careers">>) \/ Contains(url, <<"/jobs">>)
    \/ (Contains(url, <<"linkedin.com">>) /\ Contains(url, <<"/jobs", "/">>))

\* C32: the URL discover_jobs hands to extraction starts with a URL scheme
\* and matches one of the four priority patterns; any other located URL ends
\* the call with "No careers page found" and nothing submitted.
C32_OnlyPriorityUrlIsExtracted ==
    Located
        => IF Truthy(call.careers_url)
           THEN /\ StartsWith(call.careers_url, <<"http">>)
                /\ PriorityPattern(call.careers_url)
           ELSE /\ call.pc = "done"
                /\ call.submits = 0
                /\ call.result.error = NO_CAREERS_FOUND

Generated == IsCall("create_brief") /\ call.generated.kind = "brief"

PostProcessed == Generated /\ ~call.fallback

KeyNotEmpty(text) == text # EMPTY

ListNotEmpty(l) == l.kind = "list" => l.items # <<>>

WithinBudgets(brief) ==
    /\ Len(brief.summary) <= SummaryBudget
    /\ Len(brief.hiring_context) <= HiringBudget
    /\ Len(brief.key_points.items) <= MaxBullets
    /\ \A i \in DOMAIN brief.key_points.items :
          Len(brief.key_points.items[i]) <= BulletBudget

NoEmptyKey(brief) ==
    /\ KeyNotEmpty(brief.company_name) /\ KeyNotEmpty(brief.summary)
    /\ KeyNotEmpty(brief.hiring_context) /\ KeyNotEmpty(brief.approach)
    /\ ListNotEmpty(brief.key_points) /\ ListNotEmpty(brief.sources_used)

\* C33: the post-processed brief create_brief returns has a summary of at
\* most 600 characters, a hiring_context of at most 400, at most 6 key points
\* of at most 180 characters each and none of them blank, an approach no
\* longer than the largest of these budgets, and no key with an empty value.
C33_BriefWithinBudgets ==
    PostProcessed
        => /\ WithinBudgets(call.brief)
           /\ \A i \in DOMAIN call.brief.key_points.items :
                 NotBlank(call.brief.key_points.items[i])
           /\ Len(call.brief.approach) <= SummaryBudget
           /\ NoEmptyKey(call.brief)

\* C34: whenever the structured generation call gives a brief, create_brief
\* returns that brief post-processed and not the fallback brief, also when
\* post-processing drops its summary, key_points or sources_used.
C34_GeneratedBriefIsReturned ==
    Generated
        => /\ ~call.raised
           /\ ~call.fallback
           /\ call.brief = postprocess(call.generated)

\* What a node gives its caller: the exception, or the state.
Given(result) ==
    IF result.raised THEN [raised |-> TRUE, msg |-> result.msg]
    ELSE [raised |-> FALSE, state |-> result.state]

\* C35: from every state the Profile stage leaves, the Jobs search and the
\* News search give the same state in both orders, each changes only its own
\* field, and each leaves in the final state what it gives alone, whatever
\* the other one does.
C35_NewsAndJobsCommute ==
    IsCall("find_jobs_and_news_node")
        => /\ Given(call.jobs_first) = Given(call.news_first)
           /\ Given(call.node) = Given(call.jobs_first)
           /\ ~call.news_alone.raised
           /\ call.news_alone.state =
                 [call.state EXCEPT !.recent_news = call.news_alone.state.recent_news]
           /\ ~call.jobs_alone.raised
                 => call.jobs_alone.state =
                       [call.state EXCEPT
                          !.careers_page_url = call.jobs_alone.state.careers_page_url]
           /\ ~call.jobs_first.raised
           /\ call.jobs_first.state.recent_news = call.news_alone.state.recent_news

\* The run task of job j is in the queue or has been delivered.
Dispatched(j) == j \in queue \/ \E r \in DOMAIN runs : runs[r].job_id = j

\* C36: after every start_research, either the job document exists and its
\* one run task was enqueued, or no job document was persisted: every
\* document of the store has a task, and every request answered without a
\* task left no document.
C36_StartIsAllOrNothing ==
    /\ \A j \in DOMAIN store : Dispatched(j)
    /\ \A i \in DOMAIN starts :
          starts[i].resp # 202 => starts[i].job_id \notin DOMAIN store

StrayRun(r) == runs[r].job_id \notin DOMAIN store

\* C37: an invocation of run_research_job whose request names no job, or a
\* job that has no document, never runs a node of the graph, and no step of
\* it creates or changes a document of the store.
C37_StrayRequestTouchesNothing ==
    [][\A r \in DOMAIN runs :
          (StrayRun(r) /\ runs'[r] # runs[r])
              => /\ store' = store
                 /\ runs'[r].pc \in {"handler", "done"}
                 /\ runs'[r].steps_complete = <<>>
                 /\ runs'[r].state = AgentState(ABSENT, ABSENT)]_vars

C37_Witness ==
    /\ \E j \in DOMAIN store : store[j].status = "complete"
    /\ \E q, r \in DOMAIN runs :
          /\ runs[q].job_id = NO_JOB_ID
          /\ runs[q].pc = "done"
          /\ runs[q].resp = "No job_id provided"
          /\ runs[r].job_id = Len(store) + 1
          /\ runs[r].pc = "done"
          /\ runs[r].resp = "Job not found"

\* C38: a step that takes a job document to status error changes its status
\* and its error only: steps_complete is what the last stage update wrote,
\* and input, url and every result field are as they were.
C38_ErrorWritesStatusAndErrorOnly ==
    [][\A j \in DOMAIN store :
          (store'[j].status = "error" /\ store[j].status # "error")
              => /\ store'[j] = [store[j] EXCEPT !.status = "error",
                                                 !.error = store'[j].error]
                 /\ store'[j].error # store[j].error
                 /\ store'[j].steps_complete = store[j].steps_complete]_vars

C38_Witness ==
    \E j \in DOMAIN store :
        /\ store[j].status = "error"
        /\ store[j].error = STORE_ERROR
        /\ store[j].steps_complete = GraphNodes
        /\ store[j].url = WEB
        /\ store[j].linkedin_data = NotADict("none")

====
